---- MODULE Spec2Model ----
(***************************************************************************)
(* Nova animatronic head firmware (nova_arduino.ino): the serial command   *)
(* reader, the command dispatcher and the jaw interpolator, run by the     *)
(* Arduino main loop  setup(); for(;;) { loop(); serialEvent(); }.         *)
(*                                                                         *)
(* A String is a sequence of one-character strings.                        *)
(***************************************************************************)
EXTENDS Integers, Sequences, FiniteSets, TLC

\* ------------------------------------------------------------------ bounds
\* The host sends at most MaxBytes bytes, line terminators included.
MaxBytes == 17
\* millis() advances by at most MaxStep between two readings of loop().
MaxStep == 3
\* The clock is followed for MaxElapsed ms after setup() (general runs).
MaxElapsed == 12
\* ... and for MaxElapsedA ms in the run of scenario A ("jaw 60").
MaxElapsedA == 186
\* ... and for MaxElapsedL ms in the runs of scenario L (near targets).
MaxElapsedL == 30
\* Width in bits of the modelled millisecond counter: unsigned long
\* arithmetic is taken modulo 2^ClockBits (32 bits on the board; only
\* the runs of scenario W cross the wrap).
ClockBits == 16

\* Scenario W: the run starts at most WrapLead ms before the millisecond
\* counter wraps and follows the clock for MaxElapsedW ms
WrapLead == 8
MaxElapsedW == 20

\* --------------------------------------------------------------- constants
INIT_NECK == 80
INIT_JAW == 30
INIT_EYE == 80
INIT_Z == 130
MIN_ANGLE == 0
MAX_ANGLE == 180
JAW_UPDATE_DELAY_MS == 6
\* delay(500) of setup(): the first millis() reading of loop() is >= 500.
SETUP_DELAY_MS == 500
\* sizeof(int) * 8 on the AVR boards the sketch is written for.
IntBits == 16

Channels == {"neck", "jaw", "eye", "z"}

\* ------------------------------------------------------------ String class
Min(S) == CHOOSE x \in S : \A y \in S : x <= y
Max(S) == CHOOSE x \in S : \A y \in S : x >= y

Str_neck == <<"n", "e", "c", "k">>
Str_jaw == <<"j", "a", "w">>
Str_eye == <<"e", "y", "e">>
Str_z == <<"z">>

\* isspace()
isSpace(c) == c \in {" ", "\t", "\n", "\r", "\f"}

\* isdigit() and the digit's value
Digits == <<"0", "1", "2", "3", "4", "5", "6", "7", "8", "9">>
isDigit(c) == \E d \in 1..10 : Digits[d] = c
digitVal(c) == (CHOOSE d \in 1..10 : Digits[d] = c) - 1

\* tolower() on the letters the model uses
Upper == <<"N", "E", "C", "K", "J", "A", "W", "Y", "Z", "F", "O", "T">>
Lower == <<"n", "e", "c", "k", "j", "a", "w", "y", "z", "f", "o", "t">>
toLower(c) ==
  IF \E i \in 1..Len(Upper) : Upper[i] = c
  THEN Lower[CHOOSE i \in 1..Len(Upper) : Upper[i] = c]
  ELSE c

\* String::trim(): drops leading and trailing isspace() characters
trim(s) ==
  LET keep == {i \in 1..Len(s) : ~isSpace(s[i])}
  IN IF keep = {} THEN <<>> ELSE SubSeq(s, Min(keep), Max(keep))

\* String::indexOf(ch): 0-based index of the first occurrence, or -1
indexOf(s, ch) ==
  LET hits == {i \in 1..Len(s) : s[i] = ch}
  IN IF hits = {} THEN -1 ELSE Min(hits) - 1

\* String::substring(from, to): characters from..to-1 (0-based)
substring(s, from, to) == SubSeq(s, from + 1, to)

\* String::substring(from): characters from..end (0-based)
substringFrom(s, from) == SubSeq(s, from + 1, Len(s))

\* String::equalsIgnoreCase()
equalsIgnoreCase(a, b) ==
  /\ Len(a) = Len(b)
  /\ \A i \in 1..Len(a) : toLower(a[i]) = toLower(b[i])

\* String::toInt() is atol(): skips leading white space, takes an optional
\* sign, then the longest run of digits; 0 when there is none.  The value is
\* a long; the lines of the model keep it within the range of a long.
RECURSIVE atolDigits(_, _, _)
atolDigits(s, i, acc) ==
  IF i > Len(s) \/ ~isDigit(s[i])
  THEN acc
  ELSE atolDigits(s, i + 1, acc * 10 + digitVal(s[i]))

toInt(s) ==
  LET body == {i \in 1..Len(s) : ~isSpace(s[i])}
      first == IF body = {} THEN Len(s) + 1 ELSE Min(body)
      signed == first <= Len(s) /\ s[first] \in {"-", "+"}
      start == IF signed THEN first + 1 ELSE first
      mag == atolDigits(s, start, 0)
  IN IF signed /\ s[first] = "-" THEN 0 - mag ELSE mag

\* int angle = <long>: the conversion keeps the low IntBits bits
\* (two's complement)
toIntVar(v) ==
  LET m == v % (2 ^ IntBits)
  IN IF m >= 2 ^ (IntBits - 1) THEN m - 2 ^ IntBits ELSE m

\* Variant of constrain() that lets the value through unclamped
constrainNone(amt, low, high) == amt

\* constrain(amt, low, high)
constrain(amt, low, high) ==
  IF amt < low THEN low ELSE IF amt > high THEN high ELSE amt

\* Variant of the subtraction in unbounded integers
subNoWrap(a, b) == a - b

\* unsigned long subtraction: currentTime - lastJawUpdateTime
ulSub(a, b) == (a - b) % (2 ^ ClockBits)

\* ------------------------------------------------------------------- host
\* The lines a host may send (without their terminator).
Lines ==
  { <<"n", "e", "c", "k", " ", "9", "0">>,
    <<"n", "e", "c", "k", "o", "n", "l", "y">>,
    <<"j", "a", "w", " ", "6", "0">>,
    <<"J", "A", "W", " ", "-", "5">>,
    <<"e", "y", "e", " ", "9", "9", "9">>,
    <<"f", "o", "o", "t", " ", "5", "0">>,
    <<"z", " ", "4", "0", "0", "0", "0">> }

\* The streams of whole lines of at most n bytes
RECURSIVE Streams(_)
Streams(n) ==
  {<<>>} \cup
  UNION {{l \o <<"\n">> \o s : s \in Streams(n - Len(l) - 1)} :
           l \in {k \in Lines : Len(k) + 1 <= n}}

\* ------------------------------------------------------------------ state
VARIABLES
  pc,                 \* position of the main loop
  ms,                 \* last value millis() returned
  currentJawAngle,
  targetJawAngle,
  lastJawUpdateTime,
  inputString,
  stringComplete,
  wire,               \* bytes of the host not yet read by Serial.read()
  received,           \* history: bytes read by Serial.read()
  dispatched,         \* history: arguments of processCommand()
  writes,             \* history: values of Servo::write() per channel
  targets,            \* history: angles of the jaw commands dispatched
  lastWriteTime,      \* history: millis() reading of the last jaw write
  acks                \* history: number of "K" lines printed

vars == <<pc, ms, currentJawAngle, targetJawAngle, lastJawUpdateTime,
          inputString, stringComplete, wire, received, dispatched,
          writes, targets, lastWriteTime, acks>>

\* ------------------------------------------------------------------ setup
\* The writes of setup(): each servo once, to its start position
setupWrites ==
  [c \in Channels |->
     IF c = "neck" THEN <<INIT_NECK>>
     ELSE IF c = "jaw" THEN <<INIT_JAW>>
     ELSE IF c = "eye" THEN <<INIT_EYE>>
     ELSE <<INIT_Z>>]

\* Variant of the globals with targetJawAngle initialised to 0
InitWithTargetZero(stream) ==
  /\ pc = "loopJaw"
  /\ ms = SETUP_DELAY_MS
  /\ currentJawAngle = INIT_JAW
  /\ targetJawAngle = 0
  /\ lastJawUpdateTime = 0
  /\ inputString = <<>>
  /\ stringComplete = FALSE
  /\ wire = stream
  /\ received = <<>>
  /\ dispatched = <<>>
  /\ writes = setupWrites
  /\ targets = <<>>
  /\ lastWriteTime = 0
  /\ acks = 0

InitWith(stream) ==
  /\ pc = "loopJaw"
  /\ ms = SETUP_DELAY_MS
  /\ currentJawAngle = INIT_JAW
  /\ targetJawAngle = INIT_JAW
  /\ lastJawUpdateTime = 0
  /\ inputString = <<>>
  /\ stringComplete = FALSE
  /\ wire = stream
  /\ received = <<>>
  /\ dispatched = <<>>
  /\ writes = setupWrites
  /\ targets = <<>>
  /\ lastWriteTime = 0
  /\ acks = 0

Init == \E stream \in Streams(MaxBytes) : InitWith(stream)

\* Scenario A: the host sends one jaw line and nothing else.
LinesA ==
  { <<"j", "a", "w", " ", "6", "0">>,
    <<"J", "A", "W", " ", "-", "5">> }

InitA == \E l \in LinesA : InitWith(l \o <<"\n">>)

\* Scenario P: the host sends one line whose angle token is no number.
LinesP ==
  { <<"n", "e", "c", "k", " ", "a", "b", "c">>,
    <<"j", "a", "w", " ", "a", "b", "c">>,
    <<"e", "y", "e", " ", "x", "9">>,
    <<"z", " ", "-">> }

InitP == \E l \in LinesP : InitWith(l \o <<"\n">>)

\* Scenario L: the host sends jaw lines with targets near the start angle.
LinesL ==
  { <<"j", "a", "w", " ", "3", "1">>,
    <<"j", "a", "w", " ", "2", "9">> }

InitL ==
  \E k \in LinesL, l \in LinesL :
    InitWith(k \o <<"\n">>) \/ InitWith(k \o <<"\n">> \o l \o <<"\n">>)

\* Scenario B: the host sends up to three short lines: an empty one, one
\* without separator, a z command and one that names no channel.
LinesB ==
  { <<>>,
    <<"z">>,
    <<"z", " ", "7">>,
    <<"q", " ", "7">> }

InitB ==
  \E k \in LinesB, l \in LinesB, m \in LinesB :
    \/ InitWith(k \o <<"\n">>)
    \/ InitWith(k \o <<"\n">> \o l \o <<"\n">>)
    \/ InitWith(k \o <<"\n">> \o l \o <<"\n">> \o m \o <<"\n">>)

\* Scenario W: the host has been silent since setup() and sends one jaw line
\* shortly before the millisecond counter wraps; the quantum test last
\* passed less than JAW_UPDATE_DELAY_MS ago.
StartW == 2 ^ ClockBits - WrapLead

InitW ==
  \E l \in LinesA, lead \in 1..WrapLead, g \in 0..(JAW_UPDATE_DELAY_MS - 1) :
    /\ pc = "loopJaw"
    /\ ms = 2 ^ ClockBits - lead
    /\ currentJawAngle = INIT_JAW
    /\ targetJawAngle = INIT_JAW
    /\ lastJawUpdateTime = ms - g
    /\ inputString = <<>>
    /\ stringComplete = FALSE
    /\ wire = l \o <<"\n">>
    /\ received = <<>>
    /\ dispatched = <<>>
    /\ writes = setupWrites
    /\ targets = <<>>
    /\ lastWriteTime = 0
    /\ acks = 0

\* ------------------------------------------------- loop(): jaw interpolator
\* Variant of the interpolator that only ever opens the jaw
jawDirUpOnly(cur, tgt) == IF cur # tgt THEN 1 ELSE 0

\* Variant of the interpolator without its else-if branch
jawDirOpenOnly(cur, tgt) == IF cur < tgt THEN 1 ELSE 0

\* Variant of the interpolator that never rests: <= in place of <
jawDirRestless(cur, tgt) == IF cur <= tgt THEN 1 ELSE -1

\* The branch the interpolator takes: 1 for currentJawAngle++, -1 for
\* currentJawAngle--, 0 when neither branch is taken
jawDir(cur, tgt) ==
  IF cur < tgt THEN 1 ELSE IF cur > tgt THEN -1 ELSE 0

\* Variant of the quantum test that forgets to subtract the timestamp
jawDueNoBase(currentTime, last) == currentTime >= JAW_UPDATE_DELAY_MS

\* Variant of the quantum test with > in place of >=
jawDueStrict(currentTime, last) ==
  ulSub(currentTime, last) > JAW_UPDATE_DELAY_MS

\* The quantum test
jawDue(currentTime, last) == ulSub(currentTime, last) >= JAW_UPDATE_DELAY_MS

\* Variant of loop() whose jaw step is the else branch of the command test:
\* no quantum test in an iteration that finds a command ready
LoopJawUnlessReady(horizon) ==
  /\ pc = "loopJaw"
  /\ \E d \in 0..MaxStep :
       LET currentTime == (ms + d) % (2 ^ ClockBits) IN
       /\ ms + d <= SETUP_DELAY_MS + horizon
       /\ ms' = currentTime
       /\ IF ~stringComplete /\ jawDue(currentTime, lastJawUpdateTime)
          THEN /\ lastJawUpdateTime' = currentTime
               /\ LET dir == jawDir(currentJawAngle, targetJawAngle) IN
                  IF dir # 0
                  THEN /\ currentJawAngle' = currentJawAngle + dir
                       /\ writes' = [writes EXCEPT
                                       !["jaw"] = Append(@, currentJawAngle')]
                       /\ lastWriteTime' = currentTime
                  ELSE UNCHANGED <<currentJawAngle, writes, lastWriteTime>>
          ELSE UNCHANGED <<lastJawUpdateTime, currentJawAngle, writes,
                           lastWriteTime>>
  /\ pc' = "loopCommand"
  /\ UNCHANGED <<targetJawAngle, inputString, stringComplete, wire,
                 received, dispatched, targets, acks>>

\* Variant of the jaw part whose closing branch moves the angle without
\* writing it to the servo
LoopJawNoCloseWrite(horizon) ==
  /\ pc = "loopJaw"
  /\ \E d \in 0..MaxStep :
       LET currentTime == (ms + d) % (2 ^ ClockBits) IN
       /\ ms + d <= SETUP_DELAY_MS + horizon
       /\ ms' = currentTime
       /\ IF jawDue(currentTime, lastJawUpdateTime)
          THEN /\ lastJawUpdateTime' = currentTime
               /\ LET dir == jawDir(currentJawAngle, targetJawAngle) IN
                  IF dir = 1
                  THEN /\ currentJawAngle' = currentJawAngle + dir
                       /\ writes' = [writes EXCEPT !["jaw"] = Append(@, currentJawAngle')]
                       /\ lastWriteTime' = currentTime
                  ELSE /\ currentJawAngle' = currentJawAngle + dir
                       /\ UNCHANGED <<writes, lastWriteTime>>
          ELSE UNCHANGED <<lastJawUpdateTime, currentJawAngle, writes, lastWriteTime>>
  /\ pc' = "loopCommand"
  /\ UNCHANGED <<targetJawAngle, inputString, stringComplete, wire, received,
                 dispatched, targets, acks>>

LoopJaw(horizon) ==
  /\ pc = "loopJaw"
  /\ \E d \in 0..MaxStep :
       LET currentTime == (ms + d) % (2 ^ ClockBits) IN
       /\ ms + d <= SETUP_DELAY_MS + horizon
       /\ ms' = currentTime
       /\ IF jawDue(currentTime, lastJawUpdateTime)
          THEN /\ lastJawUpdateTime' = currentTime
               /\ LET dir == jawDir(currentJawAngle, targetJawAngle) IN
                  IF dir # 0
                  THEN /\ currentJawAngle' = currentJawAngle + dir
                       /\ writes' = [writes EXCEPT
                                       !["jaw"] = Append(@, currentJawAngle')]
                       /\ lastWriteTime' = currentTime
                  ELSE UNCHANGED <<currentJawAngle, writes, lastWriteTime>>
          ELSE UNCHANGED <<lastJawUpdateTime, currentJawAngle, writes,
                           lastWriteTime>>
  /\ pc' = "loopCommand"
  /\ UNCHANGED <<targetJawAngle, inputString, stringComplete, wire,
                 received, dispatched, targets, acks>>

\* ------------------------------------------------------- processCommand()
\* Variant of the dispatch with the eye and z branches exchanged
routeSwapped(cmdType) ==
  IF equalsIgnoreCase(cmdType, Str_neck) THEN "neck"
  ELSE IF equalsIgnoreCase(cmdType, Str_jaw) THEN "jaw"
  ELSE IF equalsIgnoreCase(cmdType, Str_eye) THEN "z"
  ELSE IF equalsIgnoreCase(cmdType, Str_z) THEN "eye"
  ELSE "none"

\* Variant of the dispatch whose last branch is a plain else
routeElseZ(cmdType) ==
  IF equalsIgnoreCase(cmdType, Str_neck) THEN "neck"
  ELSE IF equalsIgnoreCase(cmdType, Str_jaw) THEN "jaw"
  ELSE IF equalsIgnoreCase(cmdType, Str_eye) THEN "eye"
  ELSE "z"

\* The channel a command type selects, "none" when no branch matches
route(cmdType) ==
  IF equalsIgnoreCase(cmdType, Str_neck) THEN "neck"
  ELSE IF equalsIgnoreCase(cmdType, Str_jaw) THEN "jaw"
  ELSE IF equalsIgnoreCase(cmdType, Str_eye) THEN "eye"
  ELSE IF equalsIgnoreCase(cmdType, Str_z) THEN "z"
  ELSE "none"

\* The angle of a command that has a separator at spaceIndex
parseAngle(command, spaceIndex) ==
  constrain(toIntVar(toInt(substringFrom(command, spaceIndex + 1))),
            MIN_ANGLE, MAX_ANGLE)

\* Variant that takes a new target only once the old one is reached
jawTargetWhenIdle(cur, tgt, angle) == IF cur = tgt THEN angle ELSE tgt

\* The new target of a jaw command
jawTarget(cur, tgt, angle) == angle

\* Variant of processCommand() that rejects an angle token that does not
\* start with a number
processCommandStrict(command) ==
  LET c == trim(command)
      spaceIndex == indexOf(c, " ")
      token == trim(substringFrom(c, spaceIndex + 1))
      numeric == /\ token # <<>>
                 /\ \/ isDigit(token[1])
                    \/ /\ token[1] \in {"-", "+"}
                       /\ Len(token) > 1
                       /\ isDigit(token[2])
  IN IF spaceIndex = -1 \/ ~numeric
     THEN [channel |-> "none", angle |-> 0]
     ELSE [channel |-> route(substring(c, 0, spaceIndex)),
           angle |-> parseAngle(c, spaceIndex)]

\* processCommand(command): [channel, angle], channel "none" for a no-op
processCommand(command) ==
  LET c == trim(command)
      spaceIndex == indexOf(c, " ")
  IN IF spaceIndex = -1
     THEN [channel |-> "none", angle |-> 0]
     ELSE [channel |-> route(substring(c, 0, spaceIndex)),
           angle |-> parseAngle(c, spaceIndex)]

\* ------------------------------------------- loop(): command processing
\* A command part whose jaw command also drives the jaw servo itself
LoopCommandDirectJaw ==
  /\ pc = "loopCommand"
  /\ IF stringComplete
     THEN LET cmd == processCommand(inputString) IN
          /\ dispatched' = Append(dispatched, inputString)
          /\ IF cmd.channel = "jaw"
             THEN /\ targetJawAngle' =
                       jawTarget(currentJawAngle, targetJawAngle, cmd.angle)
                  /\ targets' = Append(targets, cmd.angle)
                  /\ writes' = [writes EXCEPT !["jaw"] = Append(@, cmd.angle)]
             ELSE /\ writes' = IF cmd.channel \in Channels
                               THEN [writes EXCEPT ![cmd.channel] = Append(@, cmd.angle)]
                               ELSE writes
                  /\ UNCHANGED <<targetJawAngle, targets>>
          /\ inputString' = <<>>
          /\ stringComplete' = FALSE
          /\ acks' = acks + 1
     ELSE UNCHANGED <<dispatched, targetJawAngle, targets, writes,
                      inputString, stringComplete, acks>>
  /\ pc' = "serialEventRun"
  /\ UNCHANGED <<ms, currentJawAngle, lastJawUpdateTime, wire, received,
                 lastWriteTime>>

\* A command part that acknowledges only a command that named a channel
LoopCommandAckOnMatch ==
  /\ pc = "loopCommand"
  /\ IF stringComplete
     THEN LET cmd == processCommand(inputString) IN
          /\ dispatched' = Append(dispatched, inputString)
          /\ IF cmd.channel = "jaw"
             THEN /\ targetJawAngle' =
                       jawTarget(currentJawAngle, targetJawAngle, cmd.angle)
                  /\ targets' = Append(targets, cmd.angle)
                  /\ UNCHANGED writes
             ELSE /\ writes' = IF cmd.channel \in Channels
                               THEN [writes EXCEPT ![cmd.channel] = Append(@, cmd.angle)]
                               ELSE writes
                  /\ UNCHANGED <<targetJawAngle, targets>>
          /\ inputString' = <<>>
          /\ stringComplete' = FALSE
          /\ acks' = IF cmd.channel \in Channels THEN acks + 1 ELSE acks
     ELSE UNCHANGED <<dispatched, targetJawAngle, targets, writes,
                      inputString, stringComplete, acks>>
  /\ pc' = "serialEventRun"
  /\ UNCHANGED <<ms, currentJawAngle, lastJawUpdateTime, wire, received,
                 lastWriteTime>>

\* A command part that keeps the buffer of a command without separator
LoopCommandKeepMalformed ==
  /\ pc = "loopCommand"
  /\ IF stringComplete
     THEN LET cmd == processCommand(inputString) IN
          /\ dispatched' = Append(dispatched, inputString)
          /\ IF cmd.channel = "jaw"
             THEN /\ targetJawAngle' =
                       jawTarget(currentJawAngle, targetJawAngle, cmd.angle)
                  /\ targets' = Append(targets, cmd.angle)
                  /\ UNCHANGED writes
             ELSE /\ writes' = IF cmd.channel \in Channels
                               THEN [writes EXCEPT ![cmd.channel] = Append(@, cmd.angle)]
                               ELSE writes
                  /\ UNCHANGED <<targetJawAngle, targets>>
          /\ inputString' = IF indexOf(trim(inputString), " ") = -1
                            THEN inputString ELSE <<>>
          /\ stringComplete' = FALSE
          /\ acks' = acks + 1
     ELSE UNCHANGED <<dispatched, targetJawAngle, targets, writes,
                      inputString, stringComplete, acks>>
  /\ pc' = "serialEventRun"
  /\ UNCHANGED <<ms, currentJawAngle, lastJawUpdateTime, wire, received,
                 lastWriteTime>>

LoopCommand ==
  /\ pc = "loopCommand"
  /\ IF stringComplete
     THEN LET cmd == processCommand(inputString) IN
          /\ dispatched' = Append(dispatched, inputString)
          /\ IF cmd.channel = "jaw"
             THEN /\ targetJawAngle' =
                       jawTarget(currentJawAngle, targetJawAngle, cmd.angle)
                  /\ targets' = Append(targets, cmd.angle)
                  /\ UNCHANGED writes
             ELSE /\ writes' = IF cmd.channel \in Channels
                               THEN [writes EXCEPT ![cmd.channel] = Append(@, cmd.angle)]
                               ELSE writes
                  /\ UNCHANGED <<targetJawAngle, targets>>
          /\ inputString' = <<>>
          /\ stringComplete' = FALSE
          /\ acks' = acks + 1
     ELSE UNCHANGED <<dispatched, targetJawAngle, targets, writes,
                      inputString, stringComplete, acks>>
  /\ pc' = "serialEventRun"
  /\ UNCHANGED <<ms, currentJawAngle, lastJawUpdateTime, wire, received,
                 lastWriteTime>>

\* ------------------------------------------------------------ serialEvent()
\* The while loop of serialEvent() over the bytes available: <<buffer, flag>>
RECURSIVE serialEvent(_, _, _)
serialEvent(buf, complete, bytes) ==
  IF bytes = <<>>
  THEN <<buf, complete>>
  ELSE IF Head(bytes) # "\n"
       THEN serialEvent(Append(buf, Head(bytes)), complete, Tail(bytes))
       ELSE serialEvent(buf, TRUE, Tail(bytes))

\* After loop() returns, serialEvent() runs when Serial.available(); it
\* reads the n bytes that have arrived by then.
SerialEventRun ==
  /\ pc = "serialEventRun"
  /\ \E n \in 0..Len(wire) :
       LET bytes == SubSeq(wire, 1, n)
           after == serialEvent(inputString, stringComplete, bytes)
       IN /\ inputString' = after[1]
          /\ stringComplete' = after[2]
          /\ wire' = SubSeq(wire, n + 1, Len(wire))
          /\ received' = received \o bytes
  /\ pc' = "loopJaw"
  /\ UNCHANGED <<ms, currentJawAngle, targetJawAngle, lastJawUpdateTime,
                 dispatched, writes, targets, lastWriteTime, acks>>

\* ------------------------------------------------------------ specification
Next == LoopJaw(MaxElapsed) \/ LoopCommand \/ SerialEventRun

Spec == Init /\ [][Next]_vars

NextA == LoopJaw(MaxElapsedA) \/ LoopCommand \/ SerialEventRun

SpecA == InitA /\ [][NextA]_vars

SpecP == InitP /\ [][Next]_vars

SpecB == InitB /\ [][Next]_vars

\* Scenario W: the horizon of LoopJaw never binds; the span of the run is
\* counted across the wrap from StartW
NextW ==
  \/ LoopJaw(2 ^ ClockBits) /\ ulSub(ms', StartW) <= MaxElapsedW
  \/ LoopCommand
  \/ SerialEventRun

SpecW == InitW /\ [][NextW]_vars

\* Scenario L with the scheduling of the board: the main loop never stops
\* iterating and the millisecond counter keeps advancing (as far as the
\* run follows it).
NextL == LoopJaw(MaxElapsedL) \/ LoopCommand \/ SerialEventRun

\* the jaw part of loop() reads a clock that has advanced
LoopJawAdvance == LoopJaw(MaxElapsedL) /\ ms' # ms
\* the command part of loop() returns
LoopReturns == pc = "loopCommand" /\ pc' = "serialEventRun"
\* the serial event check returns
SerialEventReturns == pc = "serialEventRun" /\ pc' = "loopJaw"

SpecL ==
  /\ InitL
  /\ [][NextL]_vars
  /\ WF_pc(LoopReturns)
  /\ WF_pc(SerialEventReturns)
  /\ SF_vars(LoopJawAdvance)

\* ================================================================ properties
Last(s) == s[Len(s)]
Abs(x) == IF x < 0 THEN 0 - x ELSE x
Sign(x) == IF x > 0 THEN 1 ELSE IF x < 0 THEN -1 ELSE 0

\* Saturation at the nearer bound of [MIN_ANGLE, MAX_ANGLE]
Saturate(a) ==
  IF a <= MIN_ANGLE THEN MIN_ANGLE
  ELSE IF a >= MAX_ANGLE THEN MAX_ANGLE ELSE a

\* The steps of the main loop
JawTick == pc = "loopJaw" /\ pc' = "loopCommand"
Dispatch == pc = "loopCommand" /\ stringComplete /\ pc' = "serialEventRun"

\* Time between the last recorded jaw update and the reading of a JawTick
Elapsed == (ms' - lastJawUpdateTime) % (2 ^ ClockBits)

\* Everything received has been dispatched
Drained ==
  /\ wire = <<>>
  /\ inputString = <<>>
  /\ ~stringComplete
  /\ pc = "serialEventRun"

\* The whole input of the host
Stream == received \o wire

\* The complete lines of a byte sequence, without their terminators
RECURSIVE LinesOf(_, _)
LinesOf(bytes, cur) ==
  IF bytes = <<>> THEN <<>>
  ELSE IF Head(bytes) = "\n"
       THEN <<cur>> \o LinesOf(Tail(bytes), <<>>)
       ELSE LinesOf(Tail(bytes), Append(cur, Head(bytes)))

\* The command about to be dispatched, read as the wire protocol reads it:
\* <channel> <angle>
CmdText == trim(inputString)
CmdHasSep == \E i \in 1..Len(CmdText) : CmdText[i] = " "
CmdSep == Min({i \in 1..Len(CmdText) : CmdText[i] = " "})
CmdToken == [i \in 1..(CmdSep - 1) |-> toLower(CmdText[i])]
CmdKnown == CmdHasSep /\ CmdToken \in {Str_neck, Str_jaw, Str_eye, Str_z}
CmdChannel ==
  IF CmdToken = Str_neck THEN "neck"
  ELSE IF CmdToken = Str_jaw THEN "jaw"
  ELSE IF CmdToken = Str_eye THEN "eye" ELSE "z"
\* the base-10 integer of the angle token
CmdNumber == toInt(SubSeq(CmdText, CmdSep + 1, Len(CmdText)))
\* the value of the int variable that holds it
CmdInt == toIntVar(CmdNumber)

Line_jaw60 == <<"j", "a", "w", " ", "6", "0">>
Line_jawNeg == <<"J", "A", "W", " ", "-", "5">>
Line_eye999 == <<"e", "y", "e", " ", "9", "9", "9">>
Line_foot50 == <<"f", "o", "o", "t", " ", "5", "0">>
Line_neckonly == <<"n", "e", "c", "k", "o", "n", "l", "y">>
Line_neck90 == <<"n", "e", "c", "k", " ", "9", "0">>
Line_z40000 == <<"z", " ", "4", "0", "0", "0", "0">>

\* C1: every value written to a servo (neck, jaw, eye, z), by setup(), by
\* processCommand() or by the interpolator, lies in [0, 180].
C1_WritesInRange ==
  \A c \in Channels : \A i \in 1..Len(writes[c]) :
    writes[c][i] \in MIN_ANGLE..MAX_ANGLE

\* "eye 999" was written as 180 and the jaw has moved towards the target of
\* "JAW -5".
C1_Witness ==
  /\ \E i \in 1..Len(dispatched) : dispatched[i] = Line_eye999
  /\ writes["eye"] = <<INIT_EYE, MAX_ANGLE>>
  /\ \E i \in 1..Len(dispatched) : dispatched[i] = Line_jawNeg
  /\ writes["jaw"] = <<INIT_JAW, INIT_JAW - 1>>

\* C2: with the target held at T, every due tick with current # T moves
\* current by exactly one degree towards T and writes it; the jaw writes
\* after setup() form a strictly monotonic run of one-degree steps from the
\* start angle, |T - start| of them once T is reached, and the one line is
\* acknowledged exactly once ("jaw 60": 31, 32, ..., 60).
C2_State ==
  LET w == writes["jaw"] IN
  /\ w[1] = INIT_JAW
  /\ currentJawAngle = Last(w)
  /\ targets = <<>> => w = <<INIT_JAW>>
  /\ targets # <<>> =>
       /\ Len(targets) = 1
       /\ Stream = Line_jaw60 \o <<"\n">> => targets[1] = 60
       /\ \A i \in 1..(Len(w) - 1) :
            w[i + 1] - w[i] = Sign(targets[1] - INIT_JAW)
       /\ Len(w) - 1 <= Abs(targets[1] - INIT_JAW)
       /\ currentJawAngle = targets[1] =>
            Len(w) - 1 = Abs(targets[1] - INIT_JAW)
  /\ acks = Len(dispatched)
  /\ Drained => acks = 1

C2_Tick ==
  (JawTick /\ currentJawAngle # targetJawAngle
     /\ Elapsed >= JAW_UPDATE_DELAY_MS)
  => /\ Abs(currentJawAngle' - currentJawAngle) = 1
     /\ Abs(targetJawAngle - currentJawAngle') =
          Abs(targetJawAngle - currentJawAngle) - 1
     /\ writes'["jaw"] = Append(writes["jaw"], currentJawAngle')

C2_JawConvergence == [](C2_State) /\ [][C2_Tick]_vars

\* "jaw 60" has been carried out: 30 writes 31..60 after the one of setup().
C2_Witness ==
  /\ Stream = Line_jaw60 \o <<"\n">>
  /\ currentJawAngle = 60
  /\ Len(writes["jaw"]) = 31
  /\ writes["jaw"][2] = 31
  /\ Last(writes["jaw"]) = 60
  /\ acks = 1

\* C3: every line received is dispatched as its own command, in arrival
\* order: the i-th command dispatched is the i-th line received, and once
\* the input is drained there is one command per line.
C3_Backlog ==
  /\ \A i \in 1..Len(dispatched) :
       /\ i <= Len(LinesOf(received, <<>>))
       /\ dispatched[i] = LinesOf(received, <<>>)[i]
  /\ Drained => Len(dispatched) = Len(LinesOf(received, <<>>))

\* C4: "neckonly" then "neck 90": once both lines are drained the neck has
\* been written 90, nothing else has been written and the jaw target is
\* untouched, however the bytes were split.
C4_Isolation ==
  (Drained /\ received = Line_neckonly \o <<"\n">> \o Line_neck90 \o <<"\n">>)
  => /\ writes = [setupWrites EXCEPT !["neck"] = <<INIT_NECK, 90>>]
     /\ targetJawAngle = INIT_JAW
     /\ targets = <<>>

\* C5: once the input is drained, the number of "K" equals the number of
\* line terminators received.
C5_AckPerLine ==
  Drained => acks = Len(LinesOf(received, <<>>))

\* C6: every due tick moves current one degree towards the angle of the
\* jaw command dispatched last (not at all when it is already there),
\* whether or not an earlier target had been reached.
C6_Redirect ==
  [][(JawTick /\ targets # <<>> /\ Elapsed >= JAW_UPDATE_DELAY_MS)
     => currentJawAngle' =
          currentJawAngle + Sign(Last(targets) - currentJawAngle)]_vars

\* The jaw had made one step towards 60 when "JAW -5" was dispatched, and
\* the next step went back.
C6_Witness ==
  /\ targets = <<60, 0>>
  /\ writes["jaw"] = <<INIT_JAW, INIT_JAW + 1, INIT_JAW>>

\* C7: no step taken while current = target writes the jaw or changes
\* current.
C7_IdleWriteFree ==
  [][currentJawAngle = targetJawAngle =>
       /\ writes'["jaw"] = writes["jaw"]
       /\ currentJawAngle' = currentJawAngle]_vars

\* The jaw has reached 60 and a later tick, due, has left it alone.
C7_Witness ==
  /\ pc = "loopCommand"
  /\ targets = <<60>>
  /\ currentJawAngle = 60
  /\ targetJawAngle = 60
  /\ Len(writes["jaw"]) = 31
  /\ lastJawUpdateTime = ms
  /\ ms >= SETUP_DELAY_MS + 31 * JAW_UPDATE_DELAY_MS

\* C8: the dispatch of a neck, eye or z command appends one write, of the
\* saturated value of the parsed int, to that channel and changes no other
\* channel nor the jaw target; the dispatch of a jaw command writes nothing
\* and sets the target to that value.
C8_Routing ==
  [][(Dispatch /\ CmdKnown) =>
       IF CmdChannel = "jaw"
       THEN /\ writes' = writes
            /\ targetJawAngle' = Saturate(CmdInt)
       ELSE /\ writes' = [writes EXCEPT
                            ![CmdChannel] = Append(@, Saturate(CmdInt))]
            /\ targetJawAngle' = targetJawAngle]_vars

\* "eye 999" and a jaw line have been dispatched: one write of 180 to the
\* eye, the target set and no jaw write.
C8_Witness ==
  /\ pc = "serialEventRun"
  /\ dispatched = <<Line_eye999, Line_jaw60>>
  /\ writes = [setupWrites EXCEPT !["eye"] = <<INIT_EYE, MAX_ANGLE>>]
  /\ targetJawAngle = 60

\* C9: the dispatch of a line whose channel token is none of neck, jaw,
\* eye, z writes no servo and leaves the jaw target and current angle alone.
C9_Unrecognized ==
  [][(Dispatch /\ CmdHasSep /\ ~CmdKnown) =>
       /\ writes' = writes
       /\ targetJawAngle' = targetJawAngle
       /\ currentJawAngle' = currentJawAngle]_vars

\* "foot 50" has been dispatched and acknowledged.
C9_Witness ==
  /\ dispatched = <<Line_foot50>>
  /\ acks = 1
  /\ writes = setupWrites

\* C10: the angle applied by a dispatch is the saturated value of the
\* base-10 integer of the line, whatever its magnitude.
C10_SaturatingClamp ==
  [][(Dispatch /\ CmdKnown) =>
       IF CmdChannel = "jaw"
       THEN targetJawAngle' = Saturate(CmdNumber)
       ELSE Last(writes'[CmdChannel]) = Saturate(CmdNumber)]_vars

\* C11: the dispatch of a command with a recognized channel and an angle
\* token that holds no digit is carried out with angle 0: neck, eye or z is
\* written 0, the jaw target becomes 0; the command is not discarded.
CmdAngleToken == SubSeq(CmdText, CmdSep + 1, Len(CmdText))
CmdNonNumeric == \A i \in 1..Len(CmdAngleToken) : ~isDigit(CmdAngleToken[i])

C11_NonNumericZero ==
  [][(Dispatch /\ CmdKnown /\ CmdNonNumeric) =>
       IF CmdChannel = "jaw"
       THEN /\ targetJawAngle' = 0
            /\ targets' = Append(targets, 0)
       ELSE writes'[CmdChannel] = Append(writes[CmdChannel], 0)]_vars

\* "neck abc" has been dispatched: the neck was written 0.
C11_Witness ==
  /\ dispatched = << <<"n", "e", "c", "k", " ", "a", "b", "c">> >>
  /\ writes = [setupWrites EXCEPT !["neck"] = <<INIT_NECK, 0>>]
  /\ acks = 1

\* C12: setup() writes each channel exactly once, neck 80, jaw 30, eye 80,
\* z 130, before any command is processed; the jaw starts with current =
\* target = 30 and is not written again until a jaw command with another
\* angle has been dispatched.
C12_Startup ==
  /\ writes["neck"][1] = 80
  /\ writes["jaw"][1] = 30
  /\ writes["eye"][1] = 80
  /\ writes["z"][1] = 130
  /\ dispatched = <<>> =>
       /\ \A c \in Channels : Len(writes[c]) = 1
       /\ currentJawAngle = 30
       /\ targetJawAngle = 30
  /\ (\A i \in 1..Len(targets) : targets[i] = 30) =>
       /\ writes["jaw"] = <<30>>
       /\ currentJawAngle = 30

\* Quantum tests have passed after setup() and "neck 90" has been
\* dispatched; the jaw has still only its write of setup().
C12_Witness ==
  /\ dispatched = <<Line_neck90>>
  /\ writes["neck"] = <<80, 90>>
  /\ writes["jaw"] = <<30>>
  /\ lastJawUpdateTime >= SETUP_DELAY_MS + JAW_UPDATE_DELAY_MS

\* Time between the last jaw write (setup() for the first) and the reading
\* of a JawTick
SinceWrite == (ms' - lastWriteTime) % (2 ^ ClockBits)

\* The jaw step of a JawTick: one degree towards the target, written
Stepped ==
  /\ currentJawAngle' =
       currentJawAngle + Sign(targetJawAngle - currentJawAngle)
  /\ writes'["jaw"] = Append(writes["jaw"], currentJawAngle')

\* C13 as stated: while current # target, every iteration at which 6 ms or
\* more have passed since the last jaw step that was applied (the last jaw
\* write, or startup) moves current one degree towards the target and
\* writes it.
C13_FromLastStep ==
  [][(JawTick /\ currentJawAngle # targetJawAngle
        /\ SinceWrite >= JAW_UPDATE_DELAY_MS) => Stepped]_vars

\* C13 as amended: the quantum is measured from lastJawUpdateTime, which
\* every iteration whose quantum test passes sets to its clock reading,
\* whether or not it moved the jaw; while current # target an iteration
\* steps (one degree towards the target, written) exactly when 6 ms or more
\* have passed since that timestamp.
C13_FromLastTest ==
  [][JawTick =>
       /\ lastJawUpdateTime' =
            IF Elapsed >= JAW_UPDATE_DELAY_MS
            THEN ms' ELSE lastJawUpdateTime
       /\ currentJawAngle # targetJawAngle =>
            IF Elapsed >= JAW_UPDATE_DELAY_MS
            THEN Stepped
            ELSE /\ currentJawAngle' = currentJawAngle
                 /\ writes' = writes]_vars

\* The first step towards 60 has just been applied, a quantum or more after
\* the idle quantum test that preceded the command.
C13_Witness ==
  /\ pc = "loopCommand"
  /\ targets = <<60>>
  /\ writes["jaw"] = <<INIT_JAW, INIT_JAW + 1>>
  /\ lastWriteTime = ms
  /\ lastJawUpdateTime = ms
  /\ ms >= SETUP_DELAY_MS + JAW_UPDATE_DELAY_MS

\* C14: in every iteration the jaw step comes before the dispatch: an
\* iteration that starts with current # target and the quantum elapsed
\* applies exactly one jaw step, whether or not a command is ready; the
\* step is taken towards the target the iteration started with, nothing is
\* dispatched before it, and the dispatch that follows moves and writes the
\* jaw no further.
C14_MotionFirst ==
  [][/\ pc' = "loopCommand" => pc = "loopJaw"
     /\ pc = "loopJaw" => pc' = "loopCommand"
     /\ JawTick =>
          /\ targetJawAngle' = targetJawAngle
          /\ dispatched' = dispatched
          /\ inputString' = inputString
          /\ stringComplete' = stringComplete
          /\ (currentJawAngle # targetJawAngle
                /\ Elapsed >= JAW_UPDATE_DELAY_MS) =>
               /\ Len(writes'["jaw"]) = Len(writes["jaw"]) + 1
               /\ Last(writes'["jaw"]) =
                    currentJawAngle + Sign(targetJawAngle - currentJawAngle)
     /\ pc = "loopCommand" =>
          /\ pc' = "serialEventRun"
          /\ currentJawAngle' = currentJawAngle
          /\ writes'["jaw"] = writes["jaw"]]_vars

\* A jaw step has just been applied in an iteration that has a command
\* ready to dispatch.
C14_Witness ==
  /\ pc = "loopCommand"
  /\ stringComplete
  /\ lastWriteTime = ms
  /\ Len(writes["jaw"]) >= 2

\* C15: every jaw write after setup() is made by the jaw part of loop(),
\* differs from the write before it by exactly one degree and comes at
\* least 6 ms of clock time after it.
C15_BoundedVelocity ==
  [][writes'["jaw"] # writes["jaw"] =>
       /\ JawTick
       /\ Len(writes'["jaw"]) = Len(writes["jaw"]) + 1
       /\ SubSeq(writes'["jaw"], 1, Len(writes["jaw"])) = writes["jaw"]
       /\ Abs(Last(writes'["jaw"]) - Last(writes["jaw"])) = 1
       /\ SinceWrite >= JAW_UPDATE_DELAY_MS
       /\ lastWriteTime' = ms']_vars

\* loop() has written the jaw twice, the target having changed in between.
C15_Witness ==
  /\ Len(writes["jaw"]) = 3
  /\ Len(targets) = 2
  /\ targets[1] # targets[2]
  /\ lastWriteTime = ms

\* No command will be dispatched any more
NoMoreCommands == wire = <<>> /\ ~stringComplete

\* Clock time the run still follows
TimeLeft == SETUP_DELAY_MS + MaxElapsedL - ms

\* Longest time one jaw step can take when the clock is read at least
\* every MaxStep ms
StepTime == JAW_UPDATE_DELAY_MS + MaxStep - 1

\* C16: once no further jaw command is dispatched, with the loop iterating
\* and the clock advancing the jaw reaches current = target (given the run
\* follows the clock for the |target - current| steps that takes), and
\* having reached it stays there.
C16_Converges ==
  /\ (NoMoreCommands
        /\ TimeLeft >= Abs(targetJawAngle - currentJawAngle) * StepTime)
       ~> (currentJawAngle = targetJawAngle)
  /\ [][(NoMoreCommands /\ currentJawAngle = targetJawAngle) =>
          /\ wire' = <<>>
          /\ ~stringComplete'
          /\ currentJawAngle' = targetJawAngle']_vars

\* The jaw has followed "jaw 31" then "jaw 29" down to 29 and rests there.
C16_Witness ==
  /\ NoMoreCommands
  /\ targets = <<31, 29>>
  /\ currentJawAngle = 29
  /\ targetJawAngle = 29
  /\ writes["jaw"] = <<30, 31, 30, 29>>
  /\ lastJawUpdateTime > lastWriteTime

\* The three channels processCommand() drives
Direct == {"neck", "eye", "z"}

\* C17: after setup() the jaw servo is written only by the jaw part of
\* loop() and neck, eye and z only by the dispatch of a command; the command
\* part of loop() never changes currentJawAngle or lastJawUpdateTime, the jaw
\* part never changes targetJawAngle, and the dispatch of a neck, eye or z
\* command leaves the jaw state, the jaw servo and the other two channels
\* alone.
C17_Ownership ==
  [][/\ (writes'["jaw"] # writes["jaw"] => JawTick)
     /\ (\A c \in Direct : writes'[c] # writes[c] => Dispatch)
     /\ (pc = "loopCommand" =>
           /\ currentJawAngle' = currentJawAngle
           /\ lastJawUpdateTime' = lastJawUpdateTime)
     /\ (JawTick => targetJawAngle' = targetJawAngle)
     /\ ((Dispatch /\ CmdKnown /\ CmdChannel \in Direct) =>
           /\ currentJawAngle' = currentJawAngle
           /\ targetJawAngle' = targetJawAngle
           /\ lastJawUpdateTime' = lastJawUpdateTime
           /\ \A c \in Channels \ {CmdChannel} : writes'[c] = writes[c])]_vars

\* The jaw is on its way to the target of "jaw 60" when "neck 90" has been
\* dispatched: the neck is written, the jaw state is as the jaw part left it.
C17_Witness ==
  /\ dispatched = <<Line_jaw60, Line_neck90>>
  /\ writes["neck"] = <<INIT_NECK, 90>>
  /\ writes["jaw"] = <<INIT_JAW, INIT_JAW + 1>>
  /\ currentJawAngle = INIT_JAW + 1
  /\ targetJawAngle = 60
  /\ pc = "serialEventRun"

\* The command part of loop() has run
CommandPart == pc = "loopCommand" /\ pc' = "serialEventRun"

\* C18: the command part of a loop() iteration emits exactly one "K" when it
\* found the ready flag set, together with the one processCommand() call of
\* that iteration, and otherwise emits nothing and writes no servo; nothing
\* else emits a "K"; so the number of "K" emitted always equals the number
\* of processCommand() calls completed.
C18_AckTracksDispatch ==
  /\ [](acks = Len(dispatched))
  /\ [][/\ (CommandPart /\ stringComplete =>
             /\ acks' = acks + 1
             /\ Len(dispatched') = Len(dispatched) + 1)
        /\ (CommandPart /\ ~stringComplete =>
             /\ acks' = acks
             /\ dispatched' = dispatched
             /\ writes' = writes)
        /\ (~CommandPart => acks' = acks /\ dispatched' = dispatched)]_vars

\* "foot 50", which names no channel, and "jaw 60" have been dispatched and
\* acknowledged, and the loop has iterated since without a command.
C18_Witness ==
  /\ dispatched = <<Line_foot50, Line_jaw60>>
  /\ acks = 2
  /\ wire = <<>>
  /\ ~stringComplete
  /\ currentJawAngle = INIT_JAW + 2

\* The bytes an execution of serialEvent() has read
NewBytes == SubSeq(received', Len(received) + 1, Len(received'))
NotNewline(b) == b # "\n"

Line_empty == <<>>
Line_z == <<"z">>
Line_z7 == <<"z", " ", "7">>
Line_q7 == <<"q", " ", "7">>

\* C19: the command part of a loop() iteration that found the ready flag set
\* leaves the buffer empty and the flag false, whatever the command; the
\* buffer otherwise only grows by the characters serialEvent() reads, so the
\* next command holds only characters received after that iteration; the
\* flag is set only by serialEvent() reading a line terminator and cleared
\* only by the command part of loop().
C19_BufferReset ==
  [][/\ (Dispatch => inputString' = <<>> /\ ~stringComplete')
     /\ (pc = "serialEventRun" =>
           inputString' = inputString \o SelectSeq(NewBytes, NotNewline))
     /\ (~Dispatch /\ pc # "serialEventRun" => inputString' = inputString)
     /\ (~stringComplete /\ stringComplete' =>
           /\ pc = "serialEventRun"
           /\ \E i \in 1..Len(NewBytes) : NewBytes[i] = "\n")
     /\ (stringComplete /\ ~stringComplete' => pc = "loopCommand")]_vars

\* An empty line, a line without separator, a line that names no channel
\* and a z command have each been dispatched alone, the last as received
\* after the reset.
C19_Witness ==
  /\ \E a \in {Line_empty, Line_z, Line_q7} : dispatched = <<a, Line_z, Line_z7>>
  /\ inputString = <<>>
  /\ ~stringComplete
  /\ writes["z"] = <<INIT_Z, 7>>

\* C20: in every state after setup() currentJawAngle and targetJawAngle lie
\* in [0, 180] and the last value written to the jaw servo is
\* currentJawAngle: currentJawAngle never changes without a write of its new
\* value, and the jaw servo is never written another value.
C20_JawMirror ==
  /\ [](/\ currentJawAngle \in MIN_ANGLE..MAX_ANGLE
        /\ targetJawAngle \in MIN_ANGLE..MAX_ANGLE
        /\ Last(writes["jaw"]) = currentJawAngle)
  /\ [][(currentJawAngle' # currentJawAngle \/ writes'["jaw"] # writes["jaw"])
          => writes'["jaw"] = Append(writes["jaw"], currentJawAngle')]_vars

\* The jaw has closed one degree towards the target 0 of "JAW -5".
C20_Witness ==
  /\ dispatched = <<Line_jawNeg>>
  /\ targetJawAngle = MIN_ANGLE
  /\ currentJawAngle = INIT_JAW - 1
  /\ writes["jaw"] = <<INIT_JAW, INIT_JAW - 1>>
  /\ pc = "loopCommand"

\* The time of a clock value of scenario W, counted without wrapping: the
\* values of the upper half of the range are those before the wrap
Unwrapped(t) == IF t < 2 ^ (ClockBits - 1) THEN t + 2 ^ ClockBits ELSE t

\* True time between the last recorded jaw update and the reading of a
\* JawTick
TrueElapsed == Unwrapped(ms') - Unwrapped(lastJawUpdateTime)

\* C21: across the wrap of the millisecond counter, the jaw part of loop()
\* passes its quantum test (records the time and, with current # target,
\* takes one step) exactly when the true time elapsed since
\* lastJawUpdateTime is at least JAW_UPDATE_DELAY_MS: the jaw neither stalls
\* nor steps early, before and after the wrap.
C21_Wraparound ==
  [][JawTick =>
       IF TrueElapsed >= JAW_UPDATE_DELAY_MS
       THEN /\ lastJawUpdateTime' = ms'
            /\ currentJawAngle # targetJawAngle => Stepped
       ELSE /\ lastJawUpdateTime' = lastJawUpdateTime
            /\ currentJawAngle' = currentJawAngle
            /\ writes' = writes]_vars

\* The jaw took one step before the wrap and the next one less than
\* JAW_UPDATE_DELAY_MS after the counter passed 0.
C21_Witness ==
  /\ writes["jaw"] = <<INIT_JAW, INIT_JAW + 1, INIT_JAW + 2>>
  /\ ms < JAW_UPDATE_DELAY_MS
  /\ lastWriteTime = ms
  /\ lastJawUpdateTime = ms

====
